---- MODULE Spec2Model ----
(***************************************************************************)
(* Model of scraper.py: one run is fetch -> load -> compare -> notify ->   *)
(* persist.  Dictionaries are modelled with their insertion order, price   *)
(* texts as sequences of characters, the snapshot file by its content.     *)
(***************************************************************************)
EXTENDS Integers, Sequences, FiniteSets, TLC

\* ------------------------------------------------------------------ values
\* Python's None for a price field (parsed prices are never negative: the
\* modelled price texts carry no sign character).
None == 0 - 1

\* float() raising ValueError
ValueError == 0 - 2

\* Product names on the page / in the snapshot file.
Names == {"a", "b"}

\* select_one() found no element
NoElem == <<"<none>">>

NoName == "<none>"

Digits == {"0", "1", "2", "5"}

DigitVal(c) == CASE c = "0" -> 0 [] c = "1" -> 1 [] c = "2" -> 2 [] c = "5" -> 5

\* Texts of price elements: "$15", "$2,0 USD", "$20USD".
PriceTexts ==
  { <<"$", "1", "5">>,
    <<"$", "2", ",", "0", " ", "U", "S", "D">>,
    <<"$", "2", "0", "U", "S", "D">> }

\* ------------------------------------------------------------- dictionaries
\* A dict is its keys in insertion order and the value of each key.
EmptyDict == [order |-> <<>>, recs |-> [n \in {} |-> None]]

Keys(d) == {d.order[i] : i \in 1..Len(d.order)}

\* d[k] = v : a new key is appended, an existing key keeps its position.
DictSet(d, k, v) ==
  [order |-> IF k \in Keys(d) THEN d.order ELSE Append(d.order, k),
   recs  |-> [n \in Keys(d) \cup {k} |-> IF n = k THEN v ELSE d.recs[n]]]

\* `not d` for a dict
IsEmpty(d) == d.order = <<>>

\* ------------------------------------------------------------ price parsing
\* str.replace(pat, ''): every non-overlapping occurrence, left to right.
RECURSIVE RemoveAll(_, _)
RemoveAll(s, pat) ==
  IF Len(s) < Len(pat) THEN s
  ELSE IF SubSeq(s, 1, Len(pat)) = pat
       THEN RemoveAll(SubSeq(s, Len(pat) + 1, Len(s)), pat)
       ELSE <<Head(s)>> \o RemoveAll(Tail(s), pat)

\* Leading and trailing blanks removed (get_text(strip=True), and float()).
RECURSIVE StripLeft(_)
StripLeft(s) == IF s # <<>> /\ Head(s) = " " THEN StripLeft(Tail(s)) ELSE s

RECURSIVE StripRight(_)
StripRight(s) ==
  IF s # <<>> /\ s[Len(s)] = " " THEN StripRight(SubSeq(s, 1, Len(s) - 1)) ELSE s

Strip(s) == StripRight(StripLeft(s))

RECURSIVE DigitsValue(_)
DigitsValue(s) ==
  IF s = <<>> THEN 0
  ELSE 10 * DigitsValue(SubSeq(s, 1, Len(s) - 1)) + DigitVal(s[Len(s)])

\* float(text) for texts over the modelled alphabet.
Float(s) ==
  LET t == Strip(s) IN
  IF t # <<>> /\ \A i \in 1..Len(t) : t[i] \in Digits
  THEN DigitsValue(t) ELSE ValueError

\* text.replace('$','').replace(',','').replace(' USD','')
CleanPrice(text) ==
  RemoveAll(RemoveAll(RemoveAll(Strip(text), <<"$">>), <<",">>), <<" ", "U", "S", "D">>)

\* try: x = float(cleaned)  except ValueError: pass   (x stays None)
ParsePrice(text) ==
  LET v == Float(CleanPrice(text)) IN IF v = ValueError THEN None ELSE v

PriceOf == [t \in PriceTexts |-> ParsePrice(t)]

\* An entry of the product container: its heading link and price elements.
Items ==
  [name : Names \cup {NoName},
   sale : PriceTexts \cup {NoElem},
   regular : PriceTexts \cup {NoElem},
   generic : PriceTexts \cup {NoElem}]

SalePrice(item) == IF item.sale # NoElem THEN PriceOf[item.sale] ELSE None

RegularPrice(item) ==
  IF item.sale # NoElem
  THEN (IF item.regular # NoElem THEN PriceOf[item.regular] ELSE None)
  ELSE (IF item.generic # NoElem THEN PriceOf[item.generic] ELSE None)

\* A slip: the regular price is preferred to the sale price.
EffectivePriceRegularFirst(sale_price, regular_price) ==
  IF regular_price # None THEN regular_price ELSE sale_price

EffectivePrice(sale_price, regular_price) ==
  IF sale_price # None THEN sale_price ELSE regular_price

MakeRecord(item) ==
  [name |-> item.name,
   regular_price |-> RegularPrice(item),
   sale_price |-> SalePrice(item),
   effective_price |-> EffectivePrice(SalePrice(item), RegularPrice(item))]

\* The sale price element was there and its text did not parse.
SaleParseFailed(item) == item.sale # NoElem /\ PriceOf[item.sale] = None

\* One turn of `for item in product_items`: an entry without a heading link
\* is skipped, any other sets current_products[name].
ParseEntry(prods, item) ==
  IF item.name = NoName THEN prods ELSE DictSet(prods, item.name, MakeRecord(item))

\* Longest page read in one fetch.
MaxItems == 2

\* What the loop can have built after at most k entries.
RECURSIVE ProductsAfter(_)
ProductsAfter(k) ==
  IF k = 0 THEN {EmptyDict}
  ELSE LET before == ProductsAfter(k - 1) IN
       before \cup {ParseEntry(d, item) : d \in before, item \in Items}

\* Every value fetch_current_data() returns for a page whose container is found.
FetchResults == ProductsAfter(MaxItems)

\* --------------------------------------------------------- snapshot file
\* The content of shuttlecocks.json: no file, text that is no JSON document,
\* or a JSON object whose members are listed in the order they were written.
AbsentFile == [state |-> "absent", members |-> <<>>]

CorruptFile == [state |-> "corrupt", members |-> <<>>]

\* A price as a JSON value: null or a number.
JsonValue(v) == IF v = None THEN <<"null">> ELSE <<"num", v>>

PyValue(j) == IF j[1] = "null" THEN None ELSE j[2]

JsonObject(rec) ==
  [name |-> rec.name,
   regular_price |-> JsonValue(rec.regular_price),
   sale_price |-> JsonValue(rec.sale_price),
   effective_price |-> JsonValue(rec.effective_price)]

PyRecord(obj) ==
  [name |-> obj.name,
   regular_price |-> PyValue(obj.regular_price),
   sale_price |-> PyValue(obj.sale_price),
   effective_price |-> PyValue(obj.effective_price)]

\* json.dump(current_data, f, indent=4) into the file opened with 'w'
JsonDump(d) ==
  [state |-> "json",
   members |-> [i \in 1..Len(d.order) |->
                  <<d.order[i], JsonObject(d.recs[d.order[i]])>>]]

\* json.load(f): the members become a dict, in the order they are read
RECURSIVE MembersToDict(_)
MembersToDict(ms) ==
  IF ms = <<>> THEN EmptyDict
  ELSE LET m == ms[Len(ms)] IN
       DictSet(MembersToDict(SubSeq(ms, 1, Len(ms) - 1)), m[1], PyRecord(m[2]))

JsonLoad(f) == MembersToDict(f.members)

\* os.path.exists(DATA_FILE)
FileExists(f) == f.state # "absent"

\* json.load raises JSONDecodeError
LoadRaises(f) == f.state = "corrupt"

\* load_previous_data() when it returns
LoadPreviousData(f) == IF FileExists(f) THEN JsonLoad(f) ELSE EmptyDict

\* ------------------------------------------------------------- compare_data
\* A change line, by its parts:  kind NEW / REMOVED / UP / DOWN.
NewLine(name, price) == [kind |-> "NEW", name |-> name, old |-> None, new |-> price]

RemovedLine(name) == [kind |-> "REMOVED", name |-> name, old |-> None, new |-> None]

\* "UP" if diff > 0 else "DOWN"
Direction(old_price, new_price) == IF new_price - old_price > 0 THEN "UP" ELSE "DOWN"

ChangedLine(name, old_price, new_price) ==
  [kind |-> Direction(old_price, new_price), name |-> name,
   old |-> old_price, new |-> new_price]

\* A slip: the membership test on old_data is lost.
IsNewAlways(name, old_data) == TRUE

\* name not in old_data
IsNew(name, old_data) == name \notin Keys(old_data)

\* name not in new_data
IsRemoved(name, new_data) == name \notin Keys(new_data)

\* A slip: the None tests are lost.
PriceDiffersNoneBlind(old_price, new_price) == old_price # new_price

\* A slip: `is not` for `!=`, true of any two floats read from different places.
PriceDiffersByIdentity(old_price, new_price) == old_price # None /\ new_price # None

\* old_price is not None and new_price is not None and old_price != new_price
PriceDiffers(old_price, new_price) ==
  old_price # None /\ new_price # None /\ old_price # new_price

\* 1. for name, data in new_data.items(): if name not in old_data: append
RECURSIVE NewProducts(_, _, _)
NewProducts(old_data, new_data, i) ==
  IF i > Len(new_data.order) THEN <<>>
  ELSE LET name == new_data.order[i] IN
       (IF IsNew(name, old_data)
        THEN <<NewLine(name, new_data.recs[name].effective_price)>> ELSE <<>>)
       \o NewProducts(old_data, new_data, i + 1)

\* 2. for name in old_data: if name not in new_data: append
RECURSIVE RemovedProducts(_, _, _)
RemovedProducts(old_data, new_data, i) ==
  IF i > Len(old_data.order) THEN <<>>
  ELSE LET name == old_data.order[i] IN
       (IF IsRemoved(name, new_data) THEN <<RemovedLine(name)>> ELSE <<>>)
       \o RemovedProducts(old_data, new_data, i + 1)

\* 3. for name, data in new_data.items(): if name in old_data: ...
RECURSIVE PriceChanges(_, _, _)
PriceChanges(old_data, new_data, i) ==
  IF i > Len(new_data.order) THEN <<>>
  ELSE LET name == new_data.order[i] IN
       (IF name \in Keys(old_data)
           /\ PriceDiffers(old_data.recs[name].effective_price,
                           new_data.recs[name].effective_price)
        THEN <<ChangedLine(name, old_data.recs[name].effective_price,
                           new_data.recs[name].effective_price)>>
        ELSE <<>>)
       \o PriceChanges(old_data, new_data, i + 1)

\* A slip: the first two loops change places.
compare_data_removed_first(old_data, new_data) ==
  RemovedProducts(old_data, new_data, 1)
  \o NewProducts(old_data, new_data, 1)
  \o PriceChanges(old_data, new_data, 1)

compare_data(old_data, new_data) ==
  NewProducts(old_data, new_data, 1)
  \o RemovedProducts(old_data, new_data, 1)
  \o PriceChanges(old_data, new_data, 1)

\* -------------------------------------------------------------------- state
VARIABLES
  pc,            \* where the run is: fetch, parse, load, check, notify, save, done, crashed
  file,          \* content of shuttlecocks.json
  products,      \* fetch_current_data: current_products while the page is read
  current,       \* main: current_data
  previous,      \* main: previous_data
  changes,       \* main: changes
  emailCalls,    \* calls of send_email in this run
  emailArg,      \* the argument of the last call of send_email
  emailOutcome,  \* none / skipped / delivered / failed
  wrote,         \* this run wrote the snapshot file
  fileAtStart,   \* content of the snapshot file when the run began
  lastFailed,    \* name of the entry just read when its sale price did not parse
  prev,          \* the run before: what it fetched and how its email ended
  repeatOf       \* the run fetched what the run before fetched: that run's email outcome

vars == <<pc, file, products, current, previous, changes, emailCalls, emailArg,
          emailOutcome, wrote, fileAtStart, lastFailed, prev, repeatOf>>

NoPrev == [fetched |-> EmptyDict, email |-> "none"]

\* The locals of a run before main() has assigned them.
RunStart(f) ==
  /\ pc = "fetch"
  /\ file = f
  /\ fileAtStart = f
  /\ products = EmptyDict
  /\ current = EmptyDict
  /\ previous = EmptyDict
  /\ changes = <<>>
  /\ emailCalls = 0
  /\ emailArg = <<>>
  /\ emailOutcome = "none"
  /\ wrote = FALSE
  /\ lastFailed = NoName
  /\ repeatOf = "no"

Init ==
  /\ \E f \in {AbsentFile, CorruptFile} : RunStart(f)
  /\ prev = NoPrev

\* ------------------------------------------------------ fetch_current_data
\* What the run before fetched, when this fetch returns the same again.
RepeatOf(fetched) ==
  IF ~IsEmpty(fetched) /\ fetched = prev.fetched THEN prev.email ELSE "no"

\* requests.get / raise_for_status raised, or the container was not found.
FetchFails ==
  /\ pc = "fetch"
  /\ current' = EmptyDict
  /\ repeatOf' = "no"
  /\ prev' = NoPrev
  /\ pc' = "load"
  /\ UNCHANGED <<file, products, previous, changes, emailCalls, emailArg,
                 emailOutcome, wrote, fileAtStart, lastFailed>>

\* fetch_current_data() as one step: the page is read and the dict returned.
Fetch ==
  /\ pc = "fetch"
  /\ \E fetched \in FetchResults :
       /\ current' = fetched
       /\ repeatOf' = RepeatOf(fetched)
  /\ prev' = NoPrev
  /\ pc' = "load"
  /\ UNCHANGED <<file, products, previous, changes, emailCalls, emailArg,
                 emailOutcome, wrote, fileAtStart, lastFailed>>

\* fetch_current_data() entry by entry.  The container was found:
\* current_products = {}.
FetchPage ==
  /\ pc = "fetch"
  /\ products' = EmptyDict
  /\ pc' = "parse"
  /\ UNCHANGED <<file, current, previous, changes, emailCalls, emailArg,
                 emailOutcome, wrote, fileAtStart, lastFailed, prev, repeatOf>>

\* One turn of the loop over product_items.
ParseItem ==
  /\ pc = "parse"
  /\ \E item \in Items :
       /\ products' = ParseEntry(products, item)
       /\ lastFailed' = IF item.name # NoName /\ SaleParseFailed(item)
                        THEN item.name ELSE NoName
  /\ UNCHANGED <<pc, file, current, previous, changes, emailCalls, emailArg,
                 emailOutcome, wrote, fileAtStart, prev, repeatOf>>

\* return current_products
ParseDone ==
  /\ pc = "parse"
  /\ current' = products
  /\ repeatOf' = RepeatOf(products)
  /\ prev' = NoPrev
  /\ products' = EmptyDict
  /\ lastFailed' = NoName
  /\ pc' = "load"
  /\ UNCHANGED <<file, previous, changes, emailCalls, emailArg, emailOutcome,
                 wrote, fileAtStart>>

\* ------------------------------------------------------------------- main
\* previous_data = load_previous_data()
LoadPrevious ==
  /\ pc = "load"
  /\ IF FileExists(file) /\ LoadRaises(file)
     THEN pc' = "crashed" /\ UNCHANGED previous
     ELSE pc' = "check" /\ previous' = LoadPreviousData(file)
  /\ UNCHANGED <<file, products, current, changes, emailCalls, emailArg,
                 emailOutcome, wrote, fileAtStart, lastFailed, prev, repeatOf>>

\* A slip: the test for an empty fetch is lost.
FetchedNothingNever(current_data) == FALSE

\* `not current_data`
FetchedNothing(current_data) == IsEmpty(current_data)

\* if not current_data: return
AbortEmpty ==
  /\ pc = "check"
  /\ FetchedNothing(current)
  /\ pc' = "done"
  /\ UNCHANGED <<file, products, current, previous, changes, emailCalls, emailArg,
                 emailOutcome, wrote, fileAtStart, lastFailed, prev, repeatOf>>

\* A slip: the branch on `changes` is lost.
HasChangesAlways(chs) == TRUE

\* `if changes:`
HasChanges(chs) == chs # <<>>

\* changes = compare_data(previous_data, current_data); if changes: ... else: ...
Compare ==
  /\ pc = "check"
  /\ ~FetchedNothing(current)
  /\ changes' = compare_data(previous, current)
  /\ pc' = IF HasChanges(changes') THEN "notify" ELSE "done"
  /\ UNCHANGED <<file, products, current, previous, emailCalls, emailArg,
                 emailOutcome, wrote, fileAtStart, lastFailed, prev, repeatOf>>

\* How send_email ends: a credential is missing; the SMTP session works; it raises.
EmailResult(credentials, smtpWorks) ==
  IF ~credentials THEN "skipped" ELSE IF smtpWorks THEN "delivered" ELSE "failed"

\* A slip: no try/except around the SMTP session.
AfterEmailUncaught(outcome) == IF outcome = "failed" THEN "crashed" ELSE "save"

\* A slip: the snapshot is saved only when an email went out.
AfterEmailSaveIfSent(outcome) == IF outcome = "delivered" THEN "save" ELSE "done"

\* Where main goes on after send_email: every exception of the SMTP session
\* is caught inside send_email.
AfterEmail(outcome) == "save"

\* send_email(changes)
SendEmail ==
  /\ pc = "notify"
  /\ \E credentials \in BOOLEAN, smtpWorks \in BOOLEAN :
       /\ emailOutcome' = EmailResult(credentials, smtpWorks)
       /\ pc' = AfterEmail(emailOutcome')
  /\ emailCalls' = emailCalls + 1
  /\ emailArg' = changes
  /\ UNCHANGED <<file, products, current, previous, changes, wrote, fileAtStart,
                 lastFailed, prev, repeatOf>>

\* with open(DATA_FILE, 'w') as f: json.dump(current_data, f, indent=4)
SaveSnapshot ==
  /\ pc = "save"
  /\ file' = JsonDump(current)
  /\ wrote' = TRUE
  /\ pc' = "done"
  /\ UNCHANGED <<products, current, previous, changes, emailCalls, emailArg,
                 emailOutcome, fileAtStart, lastFailed, prev, repeatOf>>

\* The job runner starts the next run.
NextRun ==
  /\ pc \in {"done", "crashed"}
  /\ prev' = IF pc = "done"
             THEN [fetched |-> current, email |-> emailOutcome] ELSE NoPrev
  /\ pc' = "fetch"
  /\ fileAtStart' = file
  /\ products' = EmptyDict
  /\ current' = EmptyDict
  /\ previous' = EmptyDict
  /\ changes' = <<>>
  /\ emailCalls' = 0
  /\ emailArg' = <<>>
  /\ emailOutcome' = "none"
  /\ wrote' = FALSE
  /\ lastFailed' = NoName
  /\ repeatOf' = "no"
  /\ UNCHANGED file

\* The steps of main() after the fetch.
MainSteps ==
  \/ LoadPrevious
  \/ AbortEmpty
  \/ Compare
  \/ SendEmail
  \/ SaveSnapshot

\* Runs one after the other, each fetch taken as one step.
Next ==
  \/ FetchFails
  \/ Fetch
  \/ MainSteps
  \/ NextRun

Spec == Init /\ [][Next]_vars

\* One run on a first start (no snapshot file yet), the page read entry by entry.
InitFetch ==
  /\ RunStart(AbsentFile)
  /\ prev = NoPrev

NextFetch ==
  \/ FetchFails
  \/ FetchPage
  \/ ParseItem
  \/ ParseDone
  \/ MainSteps

SpecFetch == InitFetch /\ [][NextFetch]_vars

\* ------------------------------------------- compare_data on its own inputs
CmpNames == {"a", "b", "c"}

\* Most products in a snapshot handed to compare_data.
MaxLen == 3

\* Highest price in a snapshot handed to compare_data.
MaxPrice == 2

CmpPrices == {None} \cup (1..MaxPrice)

CmpOrders ==
  {o \in UNION {[1..n -> CmpNames] : n \in 0..MaxLen} :
     \A i, j \in DOMAIN o : i # j => o[i] # o[j]}

CmpRecord(name, price) ==
  [name |-> name, regular_price |-> price, sale_price |-> None,
   effective_price |-> EffectivePrice(None, price)]

CmpSnapshots ==
  UNION {{[order |-> o, recs |-> [n \in DOMAIN r |-> CmpRecord(n, r[n])]] :
            r \in [{o[i] : i \in DOMAIN o} -> CmpPrices]} : o \in CmpOrders}

InitCompare ==
  /\ pc = "compare"
  /\ previous \in CmpSnapshots
  /\ current \in CmpSnapshots
  /\ changes = <<>>
  /\ file = AbsentFile
  /\ fileAtStart = AbsentFile
  /\ products = EmptyDict
  /\ emailCalls = 0
  /\ emailArg = <<>>
  /\ emailOutcome = "none"
  /\ wrote = FALSE
  /\ lastFailed = NoName
  /\ repeatOf = "no"
  /\ prev = NoPrev

\* changes = compare_data(old_data, new_data)
CompareApply ==
  /\ pc = "compare"
  /\ changes' = compare_data(previous, current)
  /\ pc' = "compared"
  /\ UNCHANGED <<file, products, current, previous, emailCalls, emailArg,
                 emailOutcome, wrote, fileAtStart, lastFailed, prev, repeatOf>>

NextCompare == CompareApply

SpecCompare == InitCompare /\ [][NextCompare]_vars

\* ------------------------------------------------------------ properties
\* The run is past the fetch.
Fetched == pc \in {"load", "check", "notify", "save", "done", "crashed"}

\* The run has ended.
Ended == pc \in {"done", "crashed"}

\* C1: a run whose fetch returned an empty snapshot never reaches send_email
\* or the write of the snapshot file, and the stored snapshot stays what it
\* was when the run began.
C1_EmptyFetchTouchesNothing ==
  (Fetched /\ IsEmpty(current)) =>
    /\ pc \notin {"notify", "save"}
    /\ emailCalls = 0
    /\ ~wrote
    /\ file = fileAtStart

\* An empty fetch ended a run that had a stored snapshot to lose.
C1_Witness ==
  /\ pc = "done"
  /\ IsEmpty(current)
  /\ file.state = "json"
  /\ ~IsEmpty(JsonLoad(file))

\* C2: a run with a non-empty fetch and non-empty changes calls send_email
\* once, with the changes compare_data returned, and only then writes the
\* snapshot file; however send_email ended, the run ends with the stored
\* snapshot equal to the fetched one.
C2_ChangesAreSentThenSaved ==
  /\ (changes # <<>>) =>
       /\ ~IsEmpty(current)
       /\ changes = compare_data(previous, current)
       /\ pc \in {"notify", "save", "done"}
  /\ pc = "notify" => (emailCalls = 0 /\ ~wrote)
  /\ (pc = "save" /\ changes # <<>>) => (emailCalls = 1 /\ emailArg = changes /\ ~wrote)
  /\ (Ended /\ changes # <<>>) =>
       /\ emailCalls = 1
       /\ emailArg = changes
       /\ emailOutcome \in {"skipped", "delivered", "failed"}
       /\ wrote
       /\ file.state = "json"
       /\ LoadPreviousData(file) = current

\* A run ended whose email failed to deliver and whose snapshot replaced an
\* older one.
C2_Witness ==
  /\ pc = "done"
  /\ changes # <<>>
  /\ emailOutcome = "failed"
  /\ wrote
  /\ FileExists(fileAtStart)
  /\ LoadPreviousData(file) = current
  /\ file # fileAtStart

\* C3: a run with a non-empty fetch for which compare_data returns nothing
\* ends without calling send_email and without writing the snapshot file.
C3_NoChangesTouchNothing ==
  (pc \in {"notify", "save", "done"} /\ ~IsEmpty(current)
     /\ compare_data(previous, current) = <<>>) =>
    /\ pc = "done"
    /\ changes = <<>>
    /\ emailCalls = 0
    /\ emailOutcome = "none"
    /\ ~wrote
    /\ file = fileAtStart

\* A run ended without changes although the fetched snapshot is not the
\* stored one.
C3_Witness ==
  /\ pc = "done"
  /\ ~IsEmpty(current)
  /\ changes = <<>>
  /\ ~wrote
  /\ LoadPreviousData(file) # current

\* The positions of `changes` holding a line of one of `kinds` about `name`.
LinesOf(kinds, name) ==
  {i \in DOMAIN changes : changes[i].kind \in kinds /\ changes[i].name = name}

\* The names the lines of `kinds` are about.
NamesIn(kinds) == {changes[i].name : i \in {j \in DOMAIN changes : changes[j].kind \in kinds}}

PriceChanged == {"UP", "DOWN"}

\* C4: compare_data(old, new) holds exactly one NEW line for every name of
\* new that old lacks, exactly one REMOVED line for every name of old that
\* new lacks, no other NEW or REMOVED line, and the names of the NEW, the
\* REMOVED and the price-change lines are pairwise disjoint.
C4_NewAndRemovedExactlyOnce ==
  pc = "compared" =>
    /\ \A n \in CmpNames :
         /\ Cardinality(LinesOf({"NEW"}, n)) =
              (IF n \in Keys(current) \ Keys(previous) THEN 1 ELSE 0)
         /\ Cardinality(LinesOf({"REMOVED"}, n)) =
              (IF n \in Keys(previous) \ Keys(current) THEN 1 ELSE 0)
    /\ \A i \in DOMAIN changes :
         changes[i].kind = "NEW" =>
           changes[i].new = current.recs[changes[i].name].effective_price
    /\ NamesIn({"NEW"}) \cap NamesIn({"REMOVED"}) = {}
    /\ NamesIn({"NEW"}) \cap NamesIn(PriceChanged) = {}
    /\ NamesIn({"REMOVED"}) \cap NamesIn(PriceChanged) = {}

\* One comparison produced a NEW, a REMOVED and a price-change line.
C4_Witness ==
  /\ pc = "compared"
  /\ NamesIn({"NEW"}) # {}
  /\ NamesIn({"REMOVED"}) # {}
  /\ NamesIn(PriceChanged) # {}

\* C5: for a name in both snapshots compare_data holds a price-change line
\* exactly when both effective prices are there and differ (none when either
\* is None); the line carries both prices and is UP exactly when the new
\* price is the greater, DOWN otherwise.
C5_PriceChangeIffComparableAndUnequal ==
  pc = "compared" =>
    \A n \in Keys(previous) \cap Keys(current) :
      LET old_price == previous.recs[n].effective_price
          new_price == current.recs[n].effective_price
      IN /\ (LinesOf(PriceChanged, n) # {}) <=>
              (old_price # None /\ new_price # None /\ old_price # new_price)
         /\ (old_price = None \/ new_price = None) => LinesOf(PriceChanged, n) = {}
         /\ \A i \in LinesOf(PriceChanged, n) :
              /\ changes[i].old = old_price
              /\ changes[i].new = new_price
              /\ (changes[i].kind = "UP") <=> (new_price > old_price)
              /\ (changes[i].kind = "DOWN") <=> ~(new_price > old_price)

\* One comparison saw a price go up, a price go down and a price that was
\* None before and is a number now.
C5_Witness ==
  /\ pc = "compared"
  /\ \E i \in DOMAIN changes : changes[i].kind = "UP"
  /\ \E n \in Keys(previous) \cap Keys(current) :
       /\ previous.recs[n].effective_price = None
       /\ current.recs[n].effective_price # None

\* Position of a name in the iteration order of a dict.
Position(d, name) == CHOOSE i \in DOMAIN d.order : d.order[i] = name

Rank(line) == CASE line.kind = "NEW" -> 1 [] line.kind = "REMOVED" -> 2 [] OTHER -> 3

\* The dict whose iteration order places a line within its group.
OrderOf(line) == IF line.kind = "REMOVED" THEN previous ELSE current

\* C6: in compare_data(old, new) every NEW line precedes every REMOVED line
\* and every REMOVED line every price-change line; NEW and price-change
\* lines follow the iteration order of new, REMOVED lines that of old.
C6_LinesInFixedOrder ==
  pc = "compared" =>
    \A i, j \in DOMAIN changes :
      i < j =>
        /\ Rank(changes[i]) <= Rank(changes[j])
        /\ Rank(changes[i]) = Rank(changes[j]) =>
             Position(OrderOf(changes[i]), changes[i].name)
               < Position(OrderOf(changes[j]), changes[j].name)

\* Two prices changed, and new lists the two products the other way round
\* than old does.
C6_Witness ==
  /\ pc = "compared"
  /\ Len(changes) = 2
  /\ changes[1].kind \in PriceChanged
  /\ changes[2].kind \in PriceChanged
  /\ Position(previous, changes[1].name) > Position(previous, changes[2].name)

\* C7: compare_data(S, S) is empty for every snapshot S, also when effective
\* prices of S are None.
C7_NoChangeAgainstItself ==
  (pc = "compared" /\ previous = current) => changes = <<>>

\* A snapshot with a priced and an unpriced product was compared with itself.
C7_Witness ==
  /\ pc = "compared"
  /\ previous = current
  /\ \E n \in Keys(current) : current.recs[n].effective_price = None
  /\ \E n \in Keys(current) : current.recs[n].effective_price # None

\* C8: no run ends in an error that main() does not catch.
C8_NoRunCrashes == pc # "crashed"

\* effective_price is sale_price when that is there, else regular_price.
Derived(rec) ==
  /\ rec.sale_price # None => rec.effective_price = rec.sale_price
  /\ rec.sale_price = None => rec.effective_price = rec.regular_price

AllDerived(d) == \A n \in Keys(d) : Derived(d.recs[n])

\* C9: every record fetch_current_data builds or returns, and every record
\* of a snapshot written to the file, has effective_price = sale_price when
\* sale_price is there and = regular_price otherwise, also after a price
\* text failed to parse.
C9_EffectivePriceDerived ==
  /\ AllDerived(products)
  /\ AllDerived(current)
  /\ file.state = "json" => AllDerived(JsonLoad(file))

\* The entry just read had a sale price that did not parse and a regular
\* price that did: the record falls back on the regular price.
C9_Witness ==
  /\ pc = "parse"
  /\ lastFailed \in Keys(products)
  /\ products.recs[lastFailed].sale_price = None
  /\ products.recs[lastFailed].regular_price # None
  /\ products.recs[lastFailed].effective_price = products.recs[lastFailed].regular_price

\* C10: when a run that fetched a non-empty snapshot F has completed,
\* compare_data(stored snapshot, F) is empty, however send_email ended; and
\* a run that follows it and fetches F again finds no changes, sends no
\* email and leaves the snapshot file alone.
C10_ChangeReportedOnce ==
  /\ (pc = "done" /\ ~IsEmpty(current)) =>
       compare_data(LoadPreviousData(file), current) = <<>>
  /\ repeatOf # "no" =>
       /\ pc \in {"load", "check", "done"}
       /\ changes = <<>>
       /\ emailCalls = 0
       /\ ~wrote
       /\ file = fileAtStart

\* A run ended that fetched what the run before had fetched, and that run's
\* email had failed to deliver.
C10_Witness ==
  /\ pc = "done"
  /\ repeatOf = "failed"
  /\ ~IsEmpty(current)

====
